---- MODULE Spec2Model ----
(***************************************************************************)
(* Model of the Airbnb listings tool: AirBnBDataHandler.js (loadListings,  *)
(* AirBnBDataHandler, createFilterFunction, computeStatistics) and main.js *)
(* (the interactive session).                                              *)
(*                                                                         *)
(* Strings are sequences of one-character strings.  JavaScript numbers are *)
(* exact rationals [t |-> "num", n, d] in lowest terms (binary rounding is *)
(* not modelled); NaN and null are the records NaN and Null.               *)
(***************************************************************************)
EXTENDS Integers, Sequences, FiniteSets, TLC

VARIABLES
  csv,              \* the input file: [header, rows], rows of cells
  listings,         \* the array loadListings returned
  filteredRecords,  \* handler closure state (AirBnBDataHandler.js:86)
  stats,            \* handler closure state (AirBnBDataHandler.js:87)
  topHosts,         \* handler closure state (AirBnBDataHandler.js:88)
  criteria,         \* the criteria object of the last filter() call
  answers,          \* the answers given to the numeric prompts so far
  path,             \* the file path answered to the first prompt
  output,           \* the console lines printed so far
  outFile,          \* the export file on disk
  rl,               \* the readline interface: "none", "open" or "closed"
  exitCode,         \* the status the process exits with (process.exitCode, 0 if never set)
  events,           \* the calls made so far, in order: [op, arg]
  pc                \* position of the session / driver

vars == <<csv, listings, filteredRecords, stats, topHosts, criteria, answers,
          path, output, outFile, rl, exitCode, events, pc>>

\* the session's side of the state, untouched by the handler operations
ioVars == <<path, output, outFile, rl, exitCode, events>>

----------------------------------------------------------------------------
(* Bounds *)

\* longest enumerated raw field value, in characters
MaxLen == 3
\* most rows of a file built from the sample cells
MaxRows == 2
\* most listings handed to a handler whose filter is explored
MaxListings == 3
\* most distinct hosts, and most repeated listings, of a ranked list
MaxHosts == 16
MaxRepeats == 2
\* most blank answers to the file path prompt in one session
MaxBlankPaths == 1
\* most calls made on one handler whose call sequences are explored
MaxCalls == 3

----------------------------------------------------------------------------
(* Characters and strings *)

Digits == <<"0", "1", "2", "3", "4", "5", "6", "7", "8", "9">>

HexDigits == Digits \o <<"a", "b", "c", "d", "e", "f">>

IsDigit(c) == \E i \in 1..10 : Digits[i] = c

DigitVal(c) == (CHOOSE i \in 1..10 : Digits[i] = c) - 1

LowerCase(c) ==
  CASE c = "A" -> "a" [] c = "B" -> "b" [] c = "C" -> "c" [] c = "D" -> "d"
    [] c = "E" -> "e" [] c = "F" -> "f" [] c = "X" -> "x" [] OTHER -> c

IsHexDigit(c) == \E i \in 1..16 : HexDigits[i] = LowerCase(c)

HexVal(c) == (CHOOSE i \in 1..16 : HexDigits[i] = LowerCase(c)) - 1

\* white space as String.prototype.trim, parseInt, parseFloat and csv-parse skip it
IsWhite(c) == c \in {" ", "\t"}

Drop(s, k) == IF k >= Len(s) THEN <<>> ELSE SubSeq(s, k + 1, Len(s))

Take(s, k) == IF k >= Len(s) THEN s ELSE SubSeq(s, 1, k)

\* number of leading characters of s satisfying the class test
RECURSIVE LeadingWhite(_)
LeadingWhite(s) ==
  IF s # <<>> /\ IsWhite(Head(s)) THEN 1 + LeadingWhite(Tail(s)) ELSE 0

RECURSIVE TrailingWhite(_)
TrailingWhite(s) ==
  IF s # <<>> /\ IsWhite(s[Len(s)]) THEN 1 + TrailingWhite(Take(s, Len(s) - 1)) ELSE 0

RECURSIVE LeadingDigits(_)
LeadingDigits(s) ==
  IF s # <<>> /\ IsDigit(Head(s)) THEN 1 + LeadingDigits(Tail(s)) ELSE 0

RECURSIVE LeadingHex(_)
LeadingHex(s) ==
  IF s # <<>> /\ IsHexDigit(Head(s)) THEN 1 + LeadingHex(Tail(s)) ELSE 0

\* String.prototype.trim
Trim(s) ==
  LET a == LeadingWhite(s)
  IN  IF a = Len(s) THEN <<>> ELSE SubSeq(s, a + 1, Len(s) - TrailingWhite(s))

\* value of a digit string in the given radix, most significant digit first
RECURSIVE DigitsValue(_, _)
DigitsValue(s, radix) ==
  IF s = <<>> THEN 0
  ELSE DigitsValue(Take(s, Len(s) - 1), radix) * radix + HexVal(s[Len(s)])

RECURSIVE Pow10(_)
Pow10(k) == IF k = 0 THEN 1 ELSE 10 * Pow10(k - 1)

----------------------------------------------------------------------------
(* Numbers *)

Abs(x) == IF x < 0 THEN -x ELSE x

RECURSIVE Gcd(_, _)
Gcd(a, b) == IF b = 0 THEN a ELSE Gcd(b, a % b)

\* the rational n/d (d > 0) in lowest terms
Rat(n, d) ==
  LET g == Gcd(Abs(n), d)
  IN  [t |-> "num", n |-> n \div g, d |-> d \div g]

Int2Num(i) == [t |-> "num", n |-> i, d |-> 1]

NaN == [t |-> "nan", n |-> 0, d |-> 1]

Null == [t |-> "null", n |-> 0, d |-> 1]

Zero == Int2Num(0)

One == Int2Num(1)

IsNum(x) == x.t = "num"

\* a == null (loose equality with null)
IsNull(x) == x.t = "null"

\* ToBoolean of a number or null: 0, NaN and null are falsy
Truthy(x) == IsNum(x) /\ x.n # 0

\* a || b
OrElse(a, b) == IF Truthy(a) THEN a ELSE b

\* a >= b, a <= b, a > b on numbers; any comparison with NaN is false
Geq(a, b) == IsNum(a) /\ IsNum(b) /\ a.n * b.d >= b.n * a.d

Leq(a, b) == IsNum(a) /\ IsNum(b) /\ a.n * b.d <= b.n * a.d

Gt(a, b) == IsNum(a) /\ IsNum(b) /\ a.n * b.d > b.n * a.d

\* a + b and a / b; NaN is absorbing, and x / 0 is not a finite number
Add(a, b) ==
  IF IsNum(a) /\ IsNum(b) THEN Rat(a.n * b.d + b.n * a.d, a.d * b.d) ELSE NaN

Div(a, b) ==
  IF IsNum(a) /\ IsNum(b) /\ b.n # 0
  THEN Rat((IF b.n < 0 THEN -1 ELSE 1) * a.n * b.d, a.d * Abs(b.n))
  ELSE NaN

----------------------------------------------------------------------------
(* parseFloat and parseInt (ECMAScript) *)

\* sign of a numeric literal: <<factor, characters consumed>>
SignOf(s) ==
  IF s # <<>> /\ s[1] = "-" THEN <<-1, 1>>
  ELSE IF s # <<>> /\ s[1] = "+" THEN <<1, 1>>
  ELSE <<1, 0>>

\* the exponent part at the head of s: <<exponent, TRUE>> when s starts with
\* e or E, an optional sign and at least one digit
ExponentOf(s) ==
  IF s = <<>> \/ LowerCase(s[1]) # "e" THEN <<0, FALSE>>
  ELSE LET sg == SignOf(Tail(s))
           r  == Drop(s, 1 + sg[2])
           k  == LeadingDigits(r)
       IN  IF k = 0 THEN <<0, FALSE>>
           ELSE <<sg[1] * DigitsValue(Take(r, k), 10), TRUE>>

\* parseFloat(s): skip leading white space, then the longest prefix that is a
\* StrDecimalLiteral (Infinity apart); NaN when there is none
parseFloat(s) ==
  LET t    == Drop(s, LeadingWhite(s))
      sg   == SignOf(t)
      u    == Drop(t, sg[2])
      ni   == LeadingDigits(u)
      v    == Drop(u, ni)
      dot  == v # <<>> /\ v[1] = "."
      nf   == IF dot THEN LeadingDigits(Tail(v)) ELSE 0
      w    == IF dot /\ (ni > 0 \/ nf > 0) THEN Drop(v, 1 + nf) ELSE v
      ex   == ExponentOf(w)
      mant == DigitsValue(Take(u, ni), 10) * Pow10(nf)
                + (IF dot THEN DigitsValue(Take(Tail(v), nf), 10) ELSE 0)
  IN  IF ni = 0 /\ nf = 0 THEN NaN
      ELSE IF ex[1] >= 0 THEN Rat(sg[1] * mant * Pow10(ex[1]), Pow10(nf))
      ELSE Rat(sg[1] * mant, Pow10(nf) * Pow10(-ex[1]))

\* parseInt(s) with no radix: skip leading white space, a sign, a 0x prefix
\* selects radix 16, then the longest prefix of digits; NaN when it is empty
parseInt(s) ==
  LET t   == Drop(s, LeadingWhite(s))
      sg  == SignOf(t)
      u   == Drop(t, sg[2])
      hex == Len(u) >= 2 /\ u[1] = "0" /\ LowerCase(u[2]) = "x"
      r   == IF hex THEN Drop(u, 2) ELSE u
      k   == IF hex THEN LeadingHex(r) ELSE LeadingDigits(r)
  IN  IF k = 0 THEN NaN
      ELSE Int2Num(sg[1] * DigitsValue(Take(r, k), IF hex THEN 16 ELSE 10))

----------------------------------------------------------------------------
(* The input file and csv-parse *)

\* the columns the program reads, and one opaque column that passes through
Columns == {"id", "price", "accommodates", "review_scores_rating", "host_id"}

\* a JavaScript string value, or undefined/null when def is FALSE
JsStr(s) == [def |-> TRUE, s |-> s]

Undefined == [def |-> FALSE, s |-> <<>>]

\* ToBoolean of a string-or-undefined value: undefined, null and "" are falsy
TruthyStr(v) == v.def /\ v.s # <<>>

\* ToString of a string-or-undefined value, as parseInt applies it
ToStringOf(v) == IF v.def THEN v.s ELSE <<"u", "n", "d", "e", "f", "i", "n", "e", "d">>

\* csv-parse with trim: true: white space around an unquoted field is
\* dropped, white space inside a quoted field is kept
parseField(cell) == JsStr(IF cell.quoted THEN cell.text ELSE Trim(cell.text))

\* csv-parse with columns: true: one object per row, keyed by the header;
\* a column the header lacks is an undefined property
parseRow(header, row) ==
  [c \in Columns |-> IF c \in header THEN parseField(row[c]) ELSE Undefined]

parse(data) == [i \in 1..Len(data.rows) |-> parseRow(data.header, data.rows[i])]

----------------------------------------------------------------------------
(* loadListings *)

\* s.replace(/[^0-9.]/g, "")
StripNonNumeric(s) == SelectSeq(s, LAMBDA c : IsDigit(c) \/ c = ".")

\* /^[0-9]+$/.test(s)
DigitsOnlyTest(s) == Len(s) > 0 /\ LeadingDigits(s) = Len(s)

\* mutant: the price is parsed without being stripped
normalizePrice_NoStrip(v) ==
  IF TruthyStr(v) THEN OrElse(parseFloat(v.s), Zero) ELSE Zero

normalizePrice(v) ==
  IF TruthyStr(v) THEN OrElse(parseFloat(StripNonNumeric(v.s)), Zero) ELSE Zero

normalizeAccommodates(v) == OrElse(parseInt(ToStringOf(v)), One)

normalizeReviewScore(v) ==
  IF TruthyStr(v) THEN OrElse(parseFloat(v.s), Zero) ELSE Zero

\* mutant: any non-empty host_id is accepted
normalizeHostId_NoTest(v) ==
  IF TruthyStr(v) THEN JsStr(Trim(v.s)) ELSE Undefined

normalizeHostId(v) ==
  IF TruthyStr(v) /\ DigitsOnlyTest(v.s) THEN JsStr(Trim(v.s)) ELSE Undefined

\* the object the map callback builds: the row's own columns, four replaced
normalizeListing(listing) ==
  [id                   |-> listing.id,
   price                |-> normalizePrice(listing.price),
   accommodates         |-> normalizeAccommodates(listing.accommodates),
   review_scores_rating |-> normalizeReviewScore(listing.review_scores_rating),
   host_id              |-> normalizeHostId(listing.host_id)]

\* records.map(...).filter((listing) => listing.host_id)
loadListings(data) ==
  LET records == parse(data)
      mapped  == [i \in 1..Len(records) |-> normalizeListing(records[i])]
  IN  SelectSeq(mapped, LAMBDA listing : TruthyStr(listing.host_id))

----------------------------------------------------------------------------
(* Input files *)

\* characters of the enumerated raw field values
Alphabet == {"0", "1", "5", ".", "-", " ", "x", "$"}

Strings == UNION {[1..k -> Alphabet] : k \in 0..MaxLen}

\* longer raw values, among them the ones the documentation names
SampleStrings ==
  { <<"$", "1", ",", "2", "0", "0", ".", "5", "0">>,
    <<"a", "b", "c", "1", "2", "3">>,
    <<" ", "4", "2", " ">>,
    <<"0", "x", "1", "f">>,
    <<"1", "e", "2">>,
    <<"2", "5", "e", "-", "1">>,
    <<"4", ".", "5", ".", "1">>,
    <<"0", "0", "7">>,
    <<"0", ".", "0", "0", "0", "0", "0", "0", "1">> }

\* a cell is quoted only where quoting changes what csv-parse returns
Cells ==
  {[quoted |-> q, text |-> s] : q \in BOOLEAN, s \in Strings \cup SampleStrings}
    \ {c \in [quoted : {TRUE}, text : Strings \cup SampleStrings] : Trim(c.text) = c.text}

Cell(s) == [quoted |-> FALSE, text |-> s]

Quoted(s) == [quoted |-> TRUE, text |-> s]

BaseRow ==
  [id                   |-> Cell(<<"1">>),
   price                |-> Cell(<<"1", "0", "0">>),
   accommodates         |-> Cell(<<"2">>),
   review_scores_rating |-> Cell(<<"4", ".", "5">>),
   host_id              |-> Cell(<<"4", "2">>)]

SampleHostCells ==
  { Cell(<<"4", "2">>), Cell(<<"7">>), Cell(<<" ", "4", "2", " ">>),
    Quoted(<<" ", "4", "2", " ">>), Cell(<<"a", "b", "c", "1", "2", "3">>),
    Cell(<<>>) }

SamplePriceCells == { Cell(<<"1", "0", "0">>), Cell(<<"$", "0">>) }

SampleRows ==
  {[BaseRow EXCEPT !.host_id = h, !.price = p] :
     h \in SampleHostCells, p \in SamplePriceCells}

\* a header with every column, or with one of the read columns missing
Headers == {Columns} \cup {Columns \ {c} : c \in Columns \ {"id"}}

\* the row number as the id cell of the next row of the file
NextId(data) == Cell(<<Digits[Len(data.rows) + 2]>>)

----------------------------------------------------------------------------
(* Handler state before AirBnBDataHandler is called *)

NoStats == [total_count |-> 0, count |-> 0, avgPricePerRoom |-> Zero,
            avgPriceValidListings |-> Zero, set |-> FALSE]

NoCriteria == [minPrice |-> Null, maxPrice |-> Null, minRooms |-> Null,
               maxRooms |-> Null, minReviewScore |-> Null]

\* no export file has been written
NoFile == [exists |-> FALSE, header |-> {}, rows |-> <<>>]

\* the state of the session's side where no session runs
NoSession ==
  /\ path = <<>>
  /\ output = <<>>
  /\ outFile = NoFile
  /\ rl = "none"
  /\ exitCode = 0
  /\ events = <<>>

----------------------------------------------------------------------------
(* Loading a file: the file is written, then loadListings reads it *)

InitLoad ==
  /\ csv \in {[header |-> h, rows |-> <<>>] : h \in Headers}
  /\ listings = <<>>
  /\ filteredRecords = <<>>
  /\ stats = NoStats
  /\ topHosts = <<>>
  /\ criteria = NoCriteria
  /\ answers = <<>>
  /\ NoSession
  /\ pc = "file"

\* one more row of sample cells
WriteSampleRow(r) ==
  /\ pc = "file"
  /\ Len(csv.rows) < MaxRows
  /\ csv' = [csv EXCEPT !.rows = Append(@, [r EXCEPT !.id = NextId(csv)])]
  /\ UNCHANGED <<listings, filteredRecords, stats, topHosts, criteria, answers, pc, ioVars>>

\* a one-row file: the base row with one column set to any enumerated cell
WriteVariedRow ==
  /\ pc = "file"
  /\ csv.rows = <<>>
  /\ csv.header = Columns
  /\ \E col \in Columns \ {"id"}, cell \in Cells :
       csv' = [csv EXCEPT !.rows = <<[BaseRow EXCEPT ![col] = cell]>>]
  /\ pc' = "written"
  /\ UNCHANGED <<listings, filteredRecords, stats, topHosts, criteria, answers, ioVars>>

LoadListings ==
  /\ pc \in {"file", "written"}
  /\ listings' = loadListings(csv)
  /\ pc' = "loaded"
  /\ UNCHANGED <<csv, filteredRecords, stats, topHosts, criteria, answers, ioVars>>

NextLoad ==
  \/ \E r \in SampleRows : WriteSampleRow(r)
  \/ WriteVariedRow
  \/ LoadListings

SpecLoad == InitLoad /\ [][NextLoad]_vars

----------------------------------------------------------------------------
(* Properties of loadListings *)

DigitChars == {"0", "1", "2", "3", "4", "5", "6", "7", "8", "9"}

IsDigitString(s) == s # <<>> /\ \A i \in 1..Len(s) : s[i] \in DigitChars

\* the listing of the loaded array that carries the id of raw row i, if any
ListingsOfRow(i) ==
  {j \in 1..Len(listings) : listings[j].id = parse(csv)[i].id}

\* C5: loadListings keeps exactly the raw rows whose host_id is a non-empty
\* string of digits, in their input order, and every listing it returns has
\* a non-empty, digits-only host_id.
C5_KeepsExactlyDigitHosts ==
  pc = "loaded" =>
    LET raw  == parse(csv)
        keep == {i \in 1..Len(raw) :
                   raw[i].host_id.def /\ IsDigitString(raw[i].host_id.s)}
    IN  /\ Len(listings) = Cardinality(keep)
        /\ \A j \in 1..Len(listings) :
             /\ listings[j].host_id.def
             /\ IsDigitString(listings[j].host_id.s)
             /\ \E i \in keep :
                  /\ Cardinality({k \in keep : k <= i}) = j
                  /\ listings[j].id = raw[i].id
                  /\ listings[j].host_id.s = raw[i].host_id.s

\* a two-row file whose first row has host_id "abc123" was loaded: the first
\* row is gone and the second is the only listing
C5_Witness ==
  /\ pc = "loaded"
  /\ Len(csv.rows) = 2
  /\ csv.header = Columns
  /\ csv.rows[1].host_id.text = <<"a", "b", "c", "1", "2", "3">>
  /\ Len(listings) = 1
  /\ listings[1].id.s = <<"2">>

\* C6: a host_id is trimmed before it is validated: every row whose host_id
\* cell, trimmed, is a non-empty digit string survives with the trimmed value.
C6_TrimmedBeforeValidated ==
  pc = "loaded" =>
    \A i \in 1..Len(csv.rows) :
      ("host_id" \in csv.header /\ IsDigitString(Trim(csv.rows[i].host_id.text)))
        => \E j \in ListingsOfRow(i) :
             listings[j].host_id = JsStr(Trim(csv.rows[i].host_id.text))

\* C7: every loaded listing has an integer accommodates >= 1.
C7_AccommodatesPositive ==
  pc = "loaded" =>
    \A j \in 1..Len(listings) :
      /\ IsNum(listings[j].accommodates)
      /\ listings[j].accommodates.d = 1
      /\ listings[j].accommodates.n >= 1

\* C8: every loaded listing has review_scores_rating >= 0.
C8_ReviewScoreNonNegative ==
  pc = "loaded" =>
    \A j \in 1..Len(listings) :
      /\ IsNum(listings[j].review_scores_rating)
      /\ listings[j].review_scores_rating.n >= 0

\* p is a decimal literal: digits with at most one ".", and at least one digit
IsDecimal(p) ==
  /\ \A i \in 1..Len(p) : p[i] \in DigitChars \cup {"."}
  /\ Cardinality({i \in 1..Len(p) : p[i] = "."}) <= 1
  /\ \E i \in 1..Len(p) : p[i] \in DigitChars

\* the digits of p, its "." left out, read as one integer
RECURSIVE DecimalNumerator(_)
DecimalNumerator(p) ==
  IF p = <<>> THEN 0
  ELSE IF p[Len(p)] = "." THEN DecimalNumerator(SubSeq(p, 1, Len(p) - 1))
  ELSE 10 * DecimalNumerator(SubSeq(p, 1, Len(p) - 1)) + DigitVal(p[Len(p)])

\* the number a decimal literal denotes
DecimalValue(p) ==
  LET dots == {i \in 1..Len(p) : p[i] = "."}
      nf   == IF dots = {} THEN 0 ELSE Len(p) - (CHOOSE i \in dots : TRUE)
  IN  Rat(DecimalNumerator(p), Pow10(nf))

\* the price the documentation gives a raw value: every character other than
\* digits and "." deleted, the longest leading decimal literal of the rest
\* read as a number, 0 when there is none or the value is missing
ExpectedPrice(v) ==
  LET s == IF v.def THEN SelectSeq(v.s, LAMBDA c : c \in DigitChars \cup {"."}) ELSE <<>>
      K == {k \in 1..Len(s) : IsDecimal(SubSeq(s, 1, k))}
  IN  IF K = {} THEN Zero
      ELSE DecimalValue(SubSeq(s, 1, CHOOSE k \in K : \A m \in K : m <= k))

PriceSample == <<"$", "1", ",", "2", "0", "0", ".", "5", "0">>

\* C9: the normalized price is the raw value stripped of everything but
\* digits and "." and then parsed, 0 when missing, empty or unparseable;
\* it is never negative, and "$1,200.50" becomes 1200.50.
C9_PriceStrippedAndParsed ==
  pc = "loaded" =>
    \A i \in 1..Len(csv.rows) : \A j \in ListingsOfRow(i) :
      /\ listings[j].price = ExpectedPrice(parse(csv)[i].price)
      /\ IsNum(listings[j].price) /\ listings[j].price.n >= 0
      /\ (("price" \in csv.header /\ csv.rows[i].price.text = PriceSample)
            => listings[j].price = Rat(120050, 100))

\* the row with price "$1,200.50" was loaded
C9_Witness ==
  /\ pc = "loaded"
  /\ Len(csv.rows) = 1
  /\ csv.rows[1].price.text = PriceSample
  /\ Len(listings) = 1
  /\ listings[1].price = Rat(2401, 2)

----------------------------------------------------------------------------
(* AirBnBDataHandler: filter, computeStats, rankHosts *)

\* mutant: the upper price bound is exclusive
createFilterFunction_StrictMax(c, listing) ==
  /\ (IsNull(c.minPrice) \/ Geq(listing.price, c.minPrice))
  /\ (IsNull(c.maxPrice) \/ (Leq(listing.price, c.maxPrice) /\ listing.price # c.maxPrice))
  /\ (IsNull(c.minRooms) \/ Geq(listing.accommodates, c.minRooms))
  /\ (IsNull(c.maxRooms) \/ Leq(listing.accommodates, c.maxRooms))
  /\ (IsNull(c.minReviewScore) \/ Geq(listing.review_scores_rating, c.minReviewScore))

\* the predicate createFilterFunction(criteria) returns, applied to a listing
createFilterFunction(c, listing) ==
  /\ (IsNull(c.minPrice) \/ Geq(listing.price, c.minPrice))
  /\ (IsNull(c.maxPrice) \/ Leq(listing.price, c.maxPrice))
  /\ (IsNull(c.minRooms) \/ Geq(listing.accommodates, c.minRooms))
  /\ (IsNull(c.maxRooms) \/ Leq(listing.accommodates, c.maxRooms))
  /\ (IsNull(c.minReviewScore) \/ Geq(listing.review_scores_rating, c.minReviewScore))

\* array.reduce((acc, x) => acc + f(x), 0) for the two sums of computeStatistics
RECURSIVE ReduceRoomPrice(_)
ReduceRoomPrice(ls) ==
  IF ls = <<>> THEN Zero
  ELSE Add(ReduceRoomPrice(Take(ls, Len(ls) - 1)),
           Div(ls[Len(ls)].price, ls[Len(ls)].accommodates))

RECURSIVE ReducePrice(_)
ReducePrice(ls) ==
  IF ls = <<>> THEN Zero
  ELSE Add(ReducePrice(Take(ls, Len(ls) - 1)), ls[Len(ls)].price)

\* mutant: the averages are taken over all listings, not over the valid ones
computeStatistics_OverAll(ls) ==
  LET validListings == SelectSeq(ls, LAMBDA listing : Gt(listing.price, Zero))
      total_count   == Len(ls)
      count         == Len(validListings)
  IN  [total_count |-> total_count,
       count |-> count,
       avgPricePerRoom |->
         IF count # 0 THEN Div(ReduceRoomPrice(validListings), Int2Num(total_count)) ELSE Zero,
       avgPriceValidListings |->
         IF count # 0 THEN Div(ReducePrice(validListings), Int2Num(total_count)) ELSE Zero,
       set |-> TRUE]

computeStatistics(ls) ==
  LET validListings == SelectSeq(ls, LAMBDA listing : Gt(listing.price, Zero))
      total_count   == Len(ls)
      count         == Len(validListings)
  IN  [total_count |-> total_count,
       count |-> count,
       avgPricePerRoom |->
         IF count # 0 THEN Div(ReduceRoomPrice(validListings), Int2Num(count)) ELSE Zero,
       avgPriceValidListings |->
         IF count # 0 THEN Div(ReducePrice(validListings), Int2Num(count)) ELSE Zero,
       set |-> TRUE]

\* the property key a host_id becomes in acc[host_id]
KeyOf(h) == IF h.def THEN h.s ELSE <<"n", "u", "l", "l">>

\* the keys of hostCount in the order the reduce created them
RECURSIVE CreatedKeys(_)
CreatedKeys(ls) ==
  IF ls = <<>> THEN <<>>
  ELSE LET before == CreatedKeys(Take(ls, Len(ls) - 1))
           k      == KeyOf(ls[Len(ls)].host_id)
       IN  IF \E i \in 1..Len(before) : before[i] = k THEN before
           ELSE Append(before, k)

\* hostCount[k] once the reduce is over
HostCountOf(ls, k) == Cardinality({i \in 1..Len(ls) : KeyOf(ls[i].host_id) = k})

\* a < b for digit strings of equal length
RECURSIVE LexLess(_, _)
LexLess(a, b) ==
  IF a = <<>> THEN FALSE
  ELSE IF HexVal(a[1]) # HexVal(b[1]) THEN HexVal(a[1]) < HexVal(b[1])
  ELSE LexLess(Tail(a), Tail(b))

\* the largest array index, 2^32 - 2
MaxArrayIndex == <<"4", "2", "9", "4", "9", "6", "7", "2", "9", "4">>

\* k is an array index: a canonical numeric string not above 2^32 - 2
IsArrayIndex(k) ==
  /\ DigitsOnlyTest(k)
  /\ (k[1] # "0" \/ Len(k) = 1)
  /\ \/ Len(k) < Len(MaxArrayIndex)
     \/ Len(k) = Len(MaxArrayIndex) /\ ~LexLess(MaxArrayIndex, k)

\* numeric a < b for array indices
IndexLess(a, b) == Len(a) < Len(b) \/ (Len(a) = Len(b) /\ LexLess(a, b))

\* ascending numeric order of a sequence of array indices
RECURSIVE SortIndices(_)
SortIndices(ks) ==
  IF ks = <<>> THEN <<>>
  ELSE LET rest == SortIndices(Tail(ks))
           k    == Head(ks)
           lo   == SelectSeq(rest, LAMBDA x : IndexLess(x, k))
           hi   == SelectSeq(rest, LAMBDA x : ~IndexLess(x, k))
       IN  lo \o <<k>> \o hi

\* OrdinaryOwnPropertyKeys: array indices in ascending numeric order, then
\* the other string keys in the order they were created
OwnPropertyKeys(created) ==
  SortIndices(SelectSeq(created, IsArrayIndex))
    \o SelectSeq(created, LAMBDA k : ~IsArrayIndex(k))

\* Object.entries(hostCount)
ObjectEntries(ls) ==
  LET keys == OwnPropertyKeys(CreatedKeys(ls))
  IN  [i \in 1..Len(keys) |-> [host_id |-> keys[i], count |-> HostCountOf(ls, keys[i])]]

\* entries.sort((a, b) => b[1] - a[1]): a stable sort, descending by count
RECURSIVE SortByCountDesc(_)
SortByCountDesc(es) ==
  IF es = <<>> THEN <<>>
  ELSE LET sorted == SortByCountDesc(Take(es, Len(es) - 1))
           e      == es[Len(es)]
           ahead  == SelectSeq(sorted, LAMBDA x : x.count >= e.count)
           behind == SelectSeq(sorted, LAMBDA x : x.count < e.count)
       IN  ahead \o <<e>> \o behind

\* the length of the ranking: slice(0, 15)
TopN == 15

\* mutant: the entries are not sorted
rankHosts_Unsorted(ls) == Take(ObjectEntries(ls), TopN)

\* the value rankHosts assigns to topHosts
rankHosts(ls) == Take(SortByCountDesc(ObjectEntries(ls)), TopN)

----------------------------------------------------------------------------
(* Handler inputs *)

Listing(id, price, accommodates, rating, host) ==
  [id                   |-> JsStr(id),
   price                |-> price,
   accommodates         |-> Int2Num(accommodates),
   review_scores_rating |-> rating,
   host_id              |-> JsStr(host)]

\* listings as loadListings returns them
ListingPool ==
  { Listing(<<"a">>, Int2Num(100), 2, Rat(9, 2), <<"1">>),
    Listing(<<"b">>, Zero, 1, Zero, <<"2">>),
    Listing(<<"c">>, Int2Num(150), 3, Int2Num(5), <<"1">>),
    Listing(<<"d">>, Int2Num(100), 1, Int2Num(5), <<"1", "0">>),
    Listing(<<"e">>, Rat(101, 2), 2, Zero, <<"2">>),
    Listing(<<"f">>, Int2Num(150), 2, Int2Num(-1), <<"3">>) }

ListingSeqs == UNION {[1..k -> ListingPool] : k \in 0..MaxListings}

CriteriaSet ==
  [minPrice       : {Null, Zero, Int2Num(100)},
   maxPrice       : {Null, Int2Num(100)},
   minRooms       : {Null, Int2Num(2)},
   maxRooms       : {Null, Int2Num(2)},
   minReviewScore : {Null, Rat(9, 2)}]

----------------------------------------------------------------------------
(* A handler on a list of listings: filter(c).computeStats().rankHosts() *)

InitHandler ==
  /\ csv = [header |-> Columns, rows |-> <<>>]
  /\ listings \in ListingSeqs
  /\ filteredRecords = listings
  /\ stats = NoStats
  /\ topHosts = <<>>
  /\ criteria = NoCriteria
  /\ answers = <<>>
  /\ NoSession
  /\ pc = "new"

Filter(c) ==
  /\ pc = "new"
  /\ filteredRecords' = SelectSeq(filteredRecords, LAMBDA l : createFilterFunction(c, l))
  /\ criteria' = c
  /\ pc' = "filtered"
  /\ UNCHANGED <<csv, listings, stats, topHosts, answers, ioVars>>

ComputeStats ==
  /\ pc = "filtered"
  /\ stats' = computeStatistics(filteredRecords)
  /\ pc' = "stats"
  /\ UNCHANGED <<csv, listings, filteredRecords, topHosts, criteria, answers, ioVars>>

RankHosts ==
  /\ pc \in {"new", "stats"}
  /\ topHosts' = rankHosts(filteredRecords)
  /\ pc' = "ranked"
  /\ UNCHANGED <<csv, listings, filteredRecords, stats, criteria, answers, ioVars>>

NextHandler ==
  \/ \E c \in CriteriaSet : Filter(c)
  \/ ComputeStats
  \/ RankHosts

SpecHandler == InitHandler /\ [][NextHandler]_vars

----------------------------------------------------------------------------
(* Properties of filter and computeStats *)

\* x >= y and x <= y for two numbers, by cross-multiplication
AtLeast(x, y) == x.n * y.d >= y.n * x.d

AtMost(x, y) == x.n * y.d <= y.n * x.d

\* the listing satisfies every bound of c that is set
SatisfiesBounds(l, c) ==
  /\ c.minPrice.t = "num" => AtLeast(l.price, c.minPrice)
  /\ c.maxPrice.t = "num" => AtMost(l.price, c.maxPrice)
  /\ c.minRooms.t = "num" => AtLeast(l.accommodates, c.minRooms)
  /\ c.maxRooms.t = "num" => AtMost(l.accommodates, c.maxRooms)
  /\ c.minReviewScore.t = "num" => AtLeast(l.review_scores_rating, c.minReviewScore)

\* sequence s is the elements of sequence full at the positions keep, in order
IsSubsequenceAt(s, full, keep) ==
  /\ Len(s) = Cardinality(keep)
  /\ \A i \in keep : s[Cardinality({k \in keep : k <= i})] = full[i]

Hundred == Int2Num(100)

\* C1: filter returns exactly the listings that satisfy every set bound, in
\* their original order; with no bound set the list is returned unchanged,
\* and minPrice = maxPrice = 100 returns exactly the listings priced 100.
C1_FilterExact ==
  pc \in {"filtered", "stats"} =>
    /\ IsSubsequenceAt(filteredRecords, listings,
         {i \in 1..Len(listings) : SatisfiesBounds(listings[i], criteria)})
    /\ criteria = NoCriteria => filteredRecords = listings
    /\ criteria = [NoCriteria EXCEPT !.minPrice = Hundred, !.maxPrice = Hundred]
         => IsSubsequenceAt(filteredRecords, listings,
              {i \in 1..Len(listings) : listings[i].price = Hundred})

\* filter({minPrice: 100, maxPrice: 100}) kept some listings and dropped
\* others, cheaper and dearer
C1_Witness ==
  /\ pc = "filtered"
  /\ criteria = [NoCriteria EXCEPT !.minPrice = Hundred, !.maxPrice = Hundred]
  /\ Len(filteredRecords) >= 1
  /\ \E i \in 1..Len(listings) : listings[i].price.n = 0
  /\ \E i \in 1..Len(listings) : listings[i].price.n = 150

\* the sum of f over the listings at the positions I, in no particular order
RECURSIVE SumRoomPriceAt(_, _)
SumRoomPriceAt(ls, I) ==
  IF I = {} THEN Zero
  ELSE LET i == CHOOSE i \in I : TRUE
       IN  Add(Rat(ls[i].price.n * ls[i].accommodates.d,
                   ls[i].price.d * ls[i].accommodates.n),
               SumRoomPriceAt(ls, I \ {i}))

RECURSIVE SumPriceAt(_, _)
SumPriceAt(ls, I) ==
  IF I = {} THEN Zero
  ELSE LET i == CHOOSE i \in I : TRUE
       IN  Add(ls[i].price, SumPriceAt(ls, I \ {i}))

\* avg * k = sum
IsMean(avg, sum, k) == avg.t = "num" /\ avg.n * k * sum.d = sum.n * avg.d

\* C2: computeStatistics returns total_count = the length of the list, count =
\* the number of listings with price > 0, and the means of price/accommodates
\* and of price over those; both means are 0 when count = 0, count never
\* exceeds total_count, and [{100, 2}, {0, 1}] gives 2, 1, 50, 100.
C2_StatisticsExact ==
  pc \in {"stats", "ranked"} /\ stats.set =>
    LET valid == {i \in 1..Len(filteredRecords) : filteredRecords[i].price.n > 0}
    IN  /\ stats.total_count = Len(filteredRecords)
        /\ stats.count = Cardinality(valid)
        /\ stats.count <= stats.total_count
        /\ valid = {} => stats.avgPricePerRoom = Zero /\ stats.avgPriceValidListings = Zero
        /\ valid # {} =>
             /\ IsMean(stats.avgPricePerRoom, SumRoomPriceAt(filteredRecords, valid),
                       Cardinality(valid))
             /\ IsMean(stats.avgPriceValidListings, SumPriceAt(filteredRecords, valid),
                       Cardinality(valid))
        /\ (/\ Len(filteredRecords) = 2
            /\ filteredRecords[1].price = Hundred
            /\ filteredRecords[1].accommodates = Int2Num(2)
            /\ filteredRecords[2].price = Zero)
             => /\ stats.total_count = 2 /\ stats.count = 1
                /\ stats.avgPricePerRoom = Int2Num(50)
                /\ stats.avgPriceValidListings = Hundred

\* statistics of a list holding both a priced and a free listing
C2_Witness ==
  /\ pc = "stats"
  /\ Len(filteredRecords) = 2
  /\ filteredRecords[1].price = Hundred
  /\ filteredRecords[1].accommodates = Int2Num(2)
  /\ filteredRecords[2].price = Zero
  /\ filteredRecords[2].accommodates = One
  /\ stats = [total_count |-> 2, count |-> 1, avgPricePerRoom |-> Int2Num(50),
              avgPriceValidListings |-> Hundred, set |-> TRUE]

----------------------------------------------------------------------------
(* Ranking the hosts of long lists *)

\* host ids in the order a file introduces them: short and long ones, not
\* in numeric order, some that are no array index (a leading zero, or above
\* 2^32 - 2)
HostPool ==
  << <<"2">>, <<"1">>, <<"1", "0">>, <<"7">>, <<"0", "0", "7">>, <<"3">>,
     <<"4", "2", "9", "4", "9", "6", "7", "2", "9", "5">>, <<"1", "5">>,
     <<"4", "2">>, <<"0">>, <<"1", "2", "0", "0">>, <<"9">>, <<"0", "1">>,
     <<"5">>, <<"8", "8">>, <<"6">>, <<"1", "1">>, <<"4">>, <<"2", "0">> >>

HostListing(k) == Listing(<<"h">>, Int2Num(100), 2, Rat(9, 2), HostPool[k])

HostsSeen(ls) == {KeyOf(ls[i].host_id) : i \in 1..Len(ls)}

InitRank ==
  /\ csv = [header |-> Columns, rows |-> <<>>]
  /\ listings = <<>>
  /\ filteredRecords = <<>>
  /\ stats = NoStats
  /\ topHosts = <<>>
  /\ criteria = NoCriteria
  /\ answers = <<>>
  /\ NoSession
  /\ pc = "listings"

\* the next listing is the first one of a host not seen before
AddNewHost ==
  /\ pc = "listings"
  /\ Len(listings) = Cardinality(HostsSeen(listings))
  /\ Len(listings) < MaxHosts
  /\ Len(listings) < Len(HostPool)
  /\ listings' = Append(listings, HostListing(Len(listings) + 1))
  /\ UNCHANGED <<csv, filteredRecords, stats, topHosts, criteria, answers, pc, ioVars>>

\* the next listing is one more of a host seen before
AddRepeat(k) ==
  /\ pc = "listings"
  /\ k <= Cardinality(HostsSeen(listings))
  /\ Len(listings) - Cardinality(HostsSeen(listings)) < MaxRepeats
  /\ listings' = Append(listings, HostListing(k))
  /\ UNCHANGED <<csv, filteredRecords, stats, topHosts, criteria, answers, pc, ioVars>>

\* AirBnBDataHandler(listings)
NewHandler ==
  /\ pc = "listings"
  /\ filteredRecords' = listings
  /\ stats' = NoStats
  /\ topHosts' = <<>>
  /\ pc' = "new"
  /\ UNCHANGED <<csv, listings, criteria, answers, ioVars>>

NextRank ==
  \/ AddNewHost
  \/ \E k \in 1..Len(HostPool) : AddRepeat(k)
  \/ NewHandler
  \/ RankHosts

SpecRank == InitRank /\ [][NextRank]_vars

----------------------------------------------------------------------------
(* Properties of rankHosts *)

ListingsOfHost(h) ==
  {i \in 1..Len(filteredRecords) : filteredRecords[i].host_id.s = h}

RankedHosts == {topHosts[i].host_id : i \in 1..Len(topHosts)}

RECURSIVE SumCounts(_)
SumCounts(es) == IF es = <<>> THEN 0 ELSE Head(es).count + SumCounts(Tail(es))

\* C3: after rankHosts, topHosts holds at most 15 entries with distinct
\* host_ids, each with the number of filtered listings of that host, in
\* non-increasing order of count; with at most 15 hosts every host appears,
\* with more no omitted host has more listings than an included one; three
\* listings of host "1" and one of host "2" rank as [{1, 3}, {2, 1}].
C3_RankingExact ==
  pc = "ranked" =>
    LET hosts == {filteredRecords[i].host_id.s : i \in 1..Len(filteredRecords)}
    IN  /\ Len(topHosts) <= 15
        /\ \A i, j \in 1..Len(topHosts) :
             i # j => topHosts[i].host_id # topHosts[j].host_id
        /\ \A i \in 1..Len(topHosts) :
             /\ topHosts[i].count = Cardinality(ListingsOfHost(topHosts[i].host_id))
             /\ topHosts[i].count >= 1
        /\ \A i \in 1..Len(topHosts) - 1 : topHosts[i].count >= topHosts[i + 1].count
        /\ Cardinality(hosts) <= 15 =>
             /\ RankedHosts = hosts
             /\ SumCounts(topHosts) = Len(filteredRecords)
        /\ Cardinality(hosts) > 15 =>
             /\ Len(topHosts) = 15
             /\ \A h \in hosts \ RankedHosts : \A i \in 1..Len(topHosts) :
                  Cardinality(ListingsOfHost(h)) <= topHosts[i].count
        /\ (/\ Len(filteredRecords) = 4
            /\ Cardinality(ListingsOfHost(<<"1">>)) = 3
            /\ Cardinality(ListingsOfHost(<<"2">>)) = 1)
             => topHosts = << [host_id |-> <<"1">>, count |-> 3],
                              [host_id |-> <<"2">>, count |-> 1] >>

\* more than 15 hosts were ranked, one of them with several listings
C3_Witness ==
  /\ pc = "ranked"
  /\ Cardinality({filteredRecords[i].host_id.s : i \in 1..Len(filteredRecords)}) > 15
  /\ Len(topHosts) = 15
  /\ topHosts[1].count = 2

\* position of the first filtered listing of host h
FirstSeen(h) == CHOOSE i \in ListingsOfHost(h) : \A k \in ListingsOfHost(h) : i <= k

\* C4: hosts with equal counts are ranked in the order in which they were
\* first met among the filtered listings, and the cut to 15 keeps the
\* earliest-met of the tied hosts.
C4_TiesInFirstSeenOrder ==
  pc = "ranked" =>
    /\ \A i, j \in 1..Len(topHosts) :
         (i < j /\ topHosts[i].count = topHosts[j].count)
           => FirstSeen(topHosts[i].host_id) < FirstSeen(topHosts[j].host_id)
    /\ \A h \in {filteredRecords[i].host_id.s : i \in 1..Len(filteredRecords)} \ RankedHosts :
         \A i \in 1..Len(topHosts) :
           topHosts[i].count = Cardinality(ListingsOfHost(h))
             => FirstSeen(topHosts[i].host_id) < FirstSeen(h)

----------------------------------------------------------------------------
(* exportData: csv-stringify and the file write *)

\* the decimal digits of a natural number
RECURSIVE NatToString(_)
NatToString(n) ==
  IF n < 10 THEN <<Digits[n + 1]>> ELSE Append(NatToString(n \div 10), Digits[(n % 10) + 1])

\* the k low decimal digits of n, zero-padded
RECURSIVE LowDigits(_, _)
LowDigits(n, k) ==
  IF k = 0 THEN <<>> ELSE Append(LowDigits(n \div 10, k - 1), Digits[(n % 10) + 1])

\* the number of decimals of a rational whose denominator divides a power of 10
RECURSIVE DecimalsOf(_, _)
DecimalsOf(d, k) == IF Pow10(k) % d = 0 \/ k >= 9 THEN k ELSE DecimalsOf(d, k + 1)

\* String(x) for a number with a finite decimal expansion, and for NaN: a
\* number below 10^-6 in magnitude is written with an exponent (the exponent
\* form of numbers from 10^21 is beyond the integers of the model)
NumberToString(x) ==
  IF ~IsNum(x) THEN <<"N", "a", "N">>
  ELSE LET k      == DecimalsOf(x.d, 0)
           scaled == Abs(x.n) * (Pow10(k) \div x.d)
           s      == NatToString(scaled)
           n      == Len(s) - k
           sign   == IF x.n < 0 THEN <<"-">> ELSE <<>>
       IN  IF scaled # 0 /\ n <= -6
           THEN sign \o <<s[1]>> \o (IF Len(s) > 1 THEN <<".">> \o Tail(s) ELSE <<>>)
                  \o <<"e", "-">> \o NatToString(1 - n)
           ELSE sign \o NatToString(scaled \div Pow10(k))
                  \o (IF k = 0 THEN <<>> ELSE <<".">> \o LowDigits(scaled % Pow10(k), k))

\* csv-stringify quotes a field that holds a delimiter or a quote
NeedsQuotes(s) == \E i \in 1..Len(s) : s[i] \in {",", "\"", "\n", "\r"}

StringifyField(s) == [quoted |-> NeedsQuotes(s), text |-> s]

\* one record as a row of cells; undefined and null are written empty
StringifyRecord(listing) ==
  [id                   |-> StringifyField(IF listing.id.def THEN listing.id.s ELSE <<>>),
   price                |-> StringifyField(NumberToString(listing.price)),
   accommodates         |-> StringifyField(NumberToString(listing.accommodates)),
   review_scores_rating |-> StringifyField(NumberToString(listing.review_scores_rating)),
   host_id              |-> StringifyField(IF listing.host_id.def THEN listing.host_id.s ELSE <<>>)]

\* stringify(filteredRecords, { header: true }): every listing has all columns
stringify(records) ==
  [exists |-> TRUE,
   header |-> Columns,
   rows   |-> [i \in 1..Len(records) |-> StringifyRecord(records[i])]]

----------------------------------------------------------------------------
(* The session of main.js *)

\* paths the user may type: the input file, a file that does not exist, a
\* file that is not CSV, an export target, and one in a missing directory
InputPath == <<"i", "n">>

MissingPath == <<"n", "o">>

MalformedPath == <<"b", "a", "d">>

ExportPath == <<"o", "u", "t">>

UnwritablePath == <<"/", "x", "/", "o">>

Blank == <<>>

Space == <<" ">>

PathAnswers == {Blank, Space, InputPath, MissingPath, MalformedPath}

ExportAnswers == {Blank, Space, ExportPath, UnwritablePath}

\* fs.readFile and parse succeed on the path
Loadable(p) == p = InputPath

\* fs.writeFile succeeds on the path
Writable(p) == p # UnwritablePath

\* the answers a user may give to the five numeric prompts, in their order
PromptAnswers ==
  << {Blank, <<"0">>, <<"1", "0", "0">>},
     {Blank, <<"0">>, <<"1", "0", "0">>, <<"x">>},
     {Blank, <<"2">>, <<"9">>},
     {Blank, <<"0">>, <<"2", ".", "5">>},
     {Blank, <<"0">>, <<"4", ".", "5">>} >>

\* the files that may be at the input path
SessionFiles ==
  { [header |-> Columns, rows |-> <<>>],
    [header |-> Columns,
     rows |-> << [BaseRow EXCEPT !.id = Cell(<<"1">>)],
                 [BaseRow EXCEPT !.id = Cell(<<"2">>), !.price = Cell(<<"$", "0">>),
                                 !.accommodates = Cell(<<"1">>),
                                 !.host_id = Cell(<<"7">>)],
                 [BaseRow EXCEPT !.id = Cell(<<"3">>), !.price = Cell(<<"2", "5", "0">>),
                                 !.accommodates = Cell(<<"4">>),
                                 !.review_scores_rating = Cell(<<>>),
                                 !.host_id = Cell(<<"7">>)],
                 [BaseRow EXCEPT !.id = Cell(<<"4">>),
                                 !.host_id = Cell(<<"a", "b", "c", "1", "2", "3">>)] >>] }

\* one entry of the call log
Event(op, arg) == [op |-> op, arg |-> arg]

\* the five numeric prompts of run, in the order they are asked
PromptOps == <<"ask minPrice", "ask maxPrice", "ask minRooms", "ask maxRooms",
               "ask minReviewScore">>

\* a file left at the export path by an earlier run
OldFile == [exists |-> TRUE, header |-> Columns, rows |-> <<BaseRow>>]

InitSession ==
  /\ csv \in SessionFiles
  /\ listings = <<>>
  /\ filteredRecords = <<>>
  /\ stats = NoStats
  /\ topHosts = <<>>
  /\ criteria = NoCriteria
  /\ answers = <<>>
  /\ path = <<>>
  /\ output = <<>>
  /\ outFile \in {NoFile, OldFile}
  /\ rl = "open"
  /\ exitCode = 0
  /\ events = <<>>
  /\ pc = "askPath"

BlankPathsSoFar == Cardinality({i \in 1..Len(output) : output[i] = "Invalid input"})

\* a blank answer to the file path prompt: the prompt is repeated
AnswerBlankPath(a) ==
  /\ pc = "askPath"
  /\ Trim(a) = <<>>
  /\ BlankPathsSoFar < MaxBlankPaths
  /\ output' = Append(output, "Invalid input")
  /\ events' = Append(events, Event("ask path", a))
  /\ UNCHANGED <<csv, listings, filteredRecords, stats, topHosts, criteria, answers,
                 path, outFile, rl, exitCode, pc>>

AnswerPath_NoTrim(a) ==
  /\ pc = "askPath"
  /\ a # <<>>
  /\ path' = a
  /\ output' = Append(output, "Loading data")
  /\ events' = events \o <<Event("ask path", a), Event("loadListings", a),
                           Event("readFile", a)>>
  /\ pc' = "load"
  /\ UNCHANGED <<csv, listings, filteredRecords, stats, topHosts, criteria, answers,
                 outFile, rl, exitCode>>

\* a non-blank answer to the file path prompt: loadListings is called with
\* it and waits for fs.readFile
AnswerPath(a) ==
  /\ pc = "askPath"
  /\ Trim(a) # <<>>
  /\ path' = a
  /\ output' = Append(output, "Loading data")
  /\ events' = events \o <<Event("ask path", a), Event("loadListings", a),
                           Event("readFile", a)>>
  /\ pc' = "load"
  /\ UNCHANGED <<csv, listings, filteredRecords, stats, topHosts, criteria, answers,
                 outFile, rl, exitCode>>

\* loadListings resolves and AirBnBDataHandler(listings) is built
LoadResolves ==
  /\ pc = "load"
  /\ Loadable(path)
  /\ listings' = loadListings(csv)
  /\ filteredRecords' = listings'
  /\ stats' = NoStats
  /\ topHosts' = <<>>
  /\ pc' = "prompts"
  /\ UNCHANGED <<csv, criteria, answers, ioVars>>

LoadRejects_GoesOn ==
  /\ pc = "load"
  /\ ~Loadable(path)
  /\ output' = output \o <<"Error reading file", "An error occurred">>
  /\ listings' = <<>>
  /\ filteredRecords' = <<>>
  /\ pc' = "prompts"
  /\ UNCHANGED <<csv, stats, topHosts, criteria, answers, path, outFile, rl, exitCode,
                 events>>

\* loadListings logs and rethrows; run logs the error and closes readline
LoadRejects ==
  /\ pc = "load"
  /\ ~Loadable(path)
  /\ output' = output \o <<"Error reading file", "An error occurred">>
  /\ events' = Append(events, Event("close", <<>>))
  /\ rl' = "closed"
  /\ pc' = "done"
  /\ UNCHANGED <<csv, listings, filteredRecords, stats, topHosts, criteria, answers,
                 path, outFile, exitCode>>

\* the criteria object run builds from the five answers
CriteriaOf(as) ==
  [minPrice       |-> OrElse(parseFloat(as[1]), Null),
   maxPrice       |-> OrElse(parseFloat(as[2]), Null),
   minRooms       |-> OrElse(parseInt(as[3]), Null),
   maxRooms       |-> OrElse(parseInt(as[4]), Null),
   minReviewScore |-> OrElse(parseFloat(as[5]), Null)]

\* the lines run prints after the chain filter().computeStats().rankHosts()
ReportOf(records, st, top) ==
  <<"Filtered Listings Count">>
    \o (IF st.count > 0 THEN <<"Statistics Summary">> ELSE <<"No valid listings">>)
    \o (IF Len(top) > 0 THEN <<"Top 15 Hosts">> ELSE <<"No hosts found">>)

\* an answer to one of the first four numeric prompts
AnswerCriterion(a) ==
  /\ pc = "prompts"
  /\ Len(answers) < 4
  /\ a \in PromptAnswers[Len(answers) + 1]
  /\ answers' = Append(answers, a)
  /\ events' = Append(events, Event(PromptOps[Len(answers) + 1], a))
  /\ UNCHANGED <<csv, listings, filteredRecords, stats, topHosts, criteria,
                 path, output, outFile, rl, exitCode, pc>>

\* the answer to the fifth prompt: the criteria are built, the handler
\* filters, computes the statistics and ranks the hosts, and run reports
AnswerLastCriterion(a) ==
  /\ pc = "prompts"
  /\ Len(answers) = 4
  /\ a \in PromptAnswers[5]
  /\ answers' = Append(answers, a)
  /\ criteria' = CriteriaOf(answers')
  /\ filteredRecords' =
       SelectSeq(filteredRecords, LAMBDA l : createFilterFunction(criteria', l))
  /\ stats' = computeStatistics(filteredRecords')
  /\ topHosts' = rankHosts(filteredRecords')
  /\ output' = output \o ReportOf(filteredRecords', stats', topHosts')
  /\ events' = events \o <<Event(PromptOps[5], a), Event("filter", <<>>),
                           Event("computeStats", <<>>), Event("rankHosts", <<>>),
                           Event("getData", <<>>), Event("report", <<>>)>>
  /\ pc' = "askExport"
  /\ UNCHANGED <<csv, listings, path, outFile, rl, exitCode>>

\* exportData(p) on a handler whose filteredRecords is records, file being
\* the export file on disk: the file afterwards, the lines logged, the
\* calls made, and whether the promise resolves with the handler or rejects
exportData_Rethrows(records, p, file) ==
  IF records = <<>>
  THEN [outFile |-> file, output |-> <<"No data to export">>, events |-> <<>>,
        settles |-> "handler"]
  ELSE IF Writable(p)
  THEN [outFile |-> stringify(records), output |-> <<"Results exported">>,
        events |-> <<Event("writeFile", p)>>, settles |-> "handler"]
  ELSE [outFile |-> file, output |-> <<"Error writing to file">>,
        events |-> <<Event("writeFile", p)>>, settles |-> "rejects"]

exportData_WritesEmpty(records, p, file) ==
  IF Writable(p)
  THEN [outFile |-> stringify(records), output |-> <<"Results exported">>,
        events |-> <<Event("writeFile", p)>>, settles |-> "handler"]
  ELSE [outFile |-> file, output |-> <<"Error writing to file">>,
        events |-> <<Event("writeFile", p)>>, settles |-> "handler"]

exportData(records, p, file) ==
  IF records = <<>>
  THEN [outFile |-> file, output |-> <<"No data to export">>, events |-> <<>>,
        settles |-> "handler"]
  ELSE IF Writable(p)
  THEN [outFile |-> stringify(records), output |-> <<"Results exported">>,
        events |-> <<Event("writeFile", p)>>, settles |-> "handler"]
  ELSE [outFile |-> file, output |-> <<"Error writing to file">>,
        events |-> <<Event("writeFile", p)>>, settles |-> "handler"]

SkipExport_LeavesOpen ==
  /\ pc = "askExport"
  /\ events' = events \o <<Event("ask export", Blank)>>
  /\ pc' = "done"
  /\ UNCHANGED <<csv, listings, filteredRecords, stats, topHosts, criteria, answers,
                 path, output, outFile, rl, exitCode>>

\* an empty answer to the export prompt: no export
SkipExport ==
  /\ pc = "askExport"
  /\ events' = events \o <<Event("ask export", Blank), Event("close", <<>>)>>
  /\ rl' = "closed"
  /\ pc' = "done"
  /\ UNCHANGED <<csv, listings, filteredRecords, stats, topHosts, criteria, answers,
                 path, output, outFile, exitCode>>

\* a non-empty answer a to the export prompt: run awaits exportData(a),
\* logs a rejection if there is one, and closes readline
Export(a) ==
  /\ pc = "askExport"
  /\ a # <<>>
  /\ LET e == exportData(filteredRecords, a, outFile)
     IN  /\ outFile' = e.outFile
         /\ output' = output \o e.output
                        \o (IF e.settles = "rejects" THEN <<"An error occurred">> ELSE <<>>)
         /\ events' = events \o <<Event("ask export", a), Event("exportData", a)>>
                        \o e.events \o <<Event("close", <<>>)>>
  /\ rl' = "closed"
  /\ pc' = "done"
  /\ UNCHANGED <<csv, listings, filteredRecords, stats, topHosts, criteria, answers,
                 path, exitCode>>

NextSession ==
  \/ \E a \in PathAnswers : AnswerBlankPath(a)
  \/ \E a \in PathAnswers : AnswerPath(a)
  \/ LoadResolves
  \/ LoadRejects
  \/ \E a \in UNION {PromptAnswers[i] : i \in 1..4} : AnswerCriterion(a)
  \/ \E a \in PromptAnswers[5] : AnswerLastCriterion(a)
  \/ SkipExport
  \/ \E a \in ExportAnswers : Export(a)

SpecSession == InitSession /\ [][NextSession]_vars

----------------------------------------------------------------------------
(* Export and reload: a loaded file is exported and the export is loaded *)

\* AirBnBDataHandler(listings).exportData(ExportPath) on the loaded listings
ExportLoaded ==
  /\ pc = "loaded"
  /\ filteredRecords' = listings
  /\ stats' = NoStats
  /\ topHosts' = <<>>
  /\ LET e == exportData(filteredRecords', ExportPath, outFile)
     IN  /\ outFile' = e.outFile
         /\ output' = output \o e.output
         /\ events' = events \o <<Event("exportData", ExportPath)>> \o e.events
  /\ pc' = "exported"
  /\ UNCHANGED <<csv, listings, criteria, answers, path, rl, exitCode>>

\* loadListings(ExportPath) reads the file exportData wrote
Reload ==
  /\ pc = "exported"
  /\ outFile.exists
  /\ listings' = loadListings([header |-> outFile.header, rows |-> outFile.rows])
  /\ events' = events \o <<Event("loadListings", ExportPath), Event("readFile", ExportPath)>>
  /\ pc' = "reloaded"
  /\ UNCHANGED <<csv, filteredRecords, stats, topHosts, criteria, answers, path, output,
                 outFile, rl, exitCode>>

NextRoundTrip ==
  \/ \E r \in SampleRows : WriteSampleRow(r)
  \/ WriteVariedRow
  \/ LoadListings
  \/ ExportLoaded
  \/ Reload

SpecRoundTrip == InitLoad /\ [][NextRoundTrip]_vars

----------------------------------------------------------------------------
(* A handler called in any order: filter, computeStats, rankHosts, exportData *)

\* the pool listing with the given id
PoolListing(id) == CHOOSE l \in ListingPool : l.id = JsStr(id)

\* the arrays the handler is built on
CallListings ==
  { <<>>,
    <<PoolListing(<<"a">>), PoolListing(<<"b">>), PoolListing(<<"c">>),
      PoolListing(<<"d">>), PoolListing(<<"e">>), PoolListing(<<"f">>)>>,
    <<PoolListing(<<"f">>), PoolListing(<<"c">>), PoolListing(<<"a">>),
      PoolListing(<<"e">>), PoolListing(<<"b">>), PoolListing(<<"d">>)>>,
    <<PoolListing(<<"a">>), PoolListing(<<"a">>), PoolListing(<<"c">>)>> }

\* the criteria objects passed to filter
CallCriteria ==
  { NoCriteria,
    [NoCriteria EXCEPT !.minPrice = Int2Num(100)],
    [NoCriteria EXCEPT !.maxPrice = Int2Num(100)],
    [NoCriteria EXCEPT !.minRooms = Int2Num(2), !.maxRooms = Int2Num(2)],
    [NoCriteria EXCEPT !.minReviewScore = Rat(9, 2)] }

\* handler = AirBnBDataHandler(listings)
InitCalls ==
  /\ csv = [header |-> Columns, rows |-> <<>>]
  /\ listings \in CallListings
  /\ filteredRecords = listings
  /\ stats = NoStats
  /\ topHosts = <<>>
  /\ criteria = NoCriteria
  /\ answers = <<>>
  /\ NoSession
  /\ pc = "handler"

\* handler.filter(c), on whatever filteredRecords holds
CallFilter_FromListings(c) ==
  /\ pc = "handler"
  /\ Len(events) < MaxCalls
  /\ filteredRecords' = SelectSeq(listings, LAMBDA l : createFilterFunction(c, l))
  /\ criteria' = c
  /\ events' = Append(events, Event("filter", c))
  /\ UNCHANGED <<csv, listings, stats, topHosts, answers, path, output, outFile, rl,
                 exitCode, pc>>

CallFilter(c) ==
  /\ pc = "handler"
  /\ Len(events) < MaxCalls
  /\ filteredRecords' = SelectSeq(filteredRecords, LAMBDA l : createFilterFunction(c, l))
  /\ criteria' = c
  /\ events' = Append(events, Event("filter", c))
  /\ UNCHANGED <<csv, listings, stats, topHosts, answers, path, output, outFile, rl,
                 exitCode, pc>>

CallComputeStats_KeepsValid ==
  /\ pc = "handler"
  /\ Len(events) < MaxCalls
  /\ filteredRecords' = SelectSeq(filteredRecords, LAMBDA l : Gt(l.price, Zero))
  /\ stats' = computeStatistics(filteredRecords)
  /\ events' = Append(events, Event("computeStats", <<>>))
  /\ UNCHANGED <<csv, listings, topHosts, criteria, answers, path,
                 output, outFile, rl, exitCode, pc>>

\* handler.computeStats()
CallComputeStats ==
  /\ pc = "handler"
  /\ Len(events) < MaxCalls
  /\ stats' = computeStatistics(filteredRecords)
  /\ events' = Append(events, Event("computeStats", <<>>))
  /\ UNCHANGED <<csv, listings, filteredRecords, topHosts, criteria, answers, path,
                 output, outFile, rl, exitCode, pc>>

\* handler.rankHosts()
CallRankHosts ==
  /\ pc = "handler"
  /\ Len(events) < MaxCalls
  /\ topHosts' = rankHosts(filteredRecords)
  /\ events' = Append(events, Event("rankHosts", <<>>))
  /\ UNCHANGED <<csv, listings, filteredRecords, stats, criteria, answers, path,
                 output, outFile, rl, exitCode, pc>>

\* await handler.exportData(p)
CallExportData(p) ==
  /\ pc = "handler"
  /\ Len(events) < MaxCalls
  /\ LET e == exportData(filteredRecords, p, outFile)
     IN  /\ outFile' = e.outFile
         /\ output' = output \o e.output
         /\ events' = events \o <<Event("exportData", p)>> \o e.events
  /\ UNCHANGED <<csv, listings, filteredRecords, stats, topHosts, criteria, answers,
                 path, rl, exitCode, pc>>

\* handler.getData()
getData == [filteredRecords |-> filteredRecords, stats |-> stats, topHosts |-> topHosts]

\* the caller reads handler.getData(): the closure state is returned as it is
CallGetData ==
  /\ pc = "handler"
  /\ Len(events) < MaxCalls
  /\ events' = Append(events, Event("getData", <<>>))
  /\ UNCHANGED <<csv, listings, filteredRecords, stats, topHosts, criteria, answers,
                 path, output, outFile, rl, exitCode, pc>>

NextCalls ==
  \/ \E c \in CallCriteria : CallFilter(c)
  \/ CallGetData
  \/ CallComputeStats
  \/ CallRankHosts
  \/ \E p \in {ExportPath, UnwritablePath} : CallExportData(p)

SpecCalls == InitCalls /\ [][NextCalls]_vars

----------------------------------------------------------------------------
(* Properties of the numeric prompts *)

\* the number the prompt's parser reads from an answer
ParsedAnswer(i, a) == IF i \in {3, 4} THEN parseInt(a) ELSE parseFloat(a)

BoundOf(c, i) ==
  CASE i = 1 -> c.minPrice [] i = 2 -> c.maxPrice [] i = 3 -> c.minRooms
    [] i = 4 -> c.maxRooms [] i = 5 -> c.minReviewScore

\* C10: the bound handed to the filter is unset exactly when the answer was
\* blank or unparseable; a parseable answer, 0 included, is the active bound
\* (answering 0 to the max-price prompt keeps only listings with price <= 0).
C10_ZeroIsAnActiveBound ==
  (pc \in {"askExport", "done"} /\ Len(answers) = 5) =>
    /\ \A i \in 1..5 :
         /\ IsNull(BoundOf(criteria, i)) <=> ParsedAnswer(i, answers[i]) = NaN
         /\ ParsedAnswer(i, answers[i]) # NaN
              => BoundOf(criteria, i) = ParsedAnswer(i, answers[i])
    /\ answers[2] = <<"0">> =>
         \A j \in 1..Len(filteredRecords) : filteredRecords[j].price.n <= 0

----------------------------------------------------------------------------
(* Properties of the session: termination, stages, failures *)

\* the console line m has been printed
Printed(m) == \E i \in 1..Len(output) : output[i] = m

\* the number of times the console line m has been printed
TimesPrinted(m) == Cardinality({i \in 1..Len(output) : output[i] = m})

\* the positions of the calls of op in the call log
CallsOf(op) == {i \in 1..Len(events) : events[i].op = op}

\* reading or parsing the input file failed
LoadFailed == Printed("Error reading file")

\* C11: a session whose load failed has printed a diagnostic and ends with
\* a non-zero exit status; a session that ran to its normal end exits with
\* status zero.
C11_ExitStatusTellsLoadFailure ==
  pc = "done" =>
    /\ LoadFailed => (Printed("An error occurred") /\ exitCode # 0)
    /\ ~LoadFailed => exitCode = 0

\* the stages of a session in the order run goes through them; the calls
\* of one stage share its number
Stages == <<{"loadListings", "readFile"}, {"ask minPrice"}, {"ask maxPrice"},
            {"ask minRooms"}, {"ask maxRooms"}, {"ask minReviewScore"},
            {"filter"}, {"computeStats"}, {"rankHosts"}, {"getData", "report"},
            {"ask export"}, {"exportData", "writeFile"}>>

\* the number of the stage a call belongs to, 0 for the file path prompt
\* and one past the last stage for the close of readline
StageOf(op) ==
  IF op = "ask path" THEN 0
  ELSE IF op = "close" THEN Len(Stages) + 1
  ELSE CHOOSE k \in 1..Len(Stages) : op \in Stages[k]

\* some call of stage k has been made
StageReached(k) == \E i \in 1..Len(events) : StageOf(events[i].op) = k

\* C12: the calls of a session follow the order load, the five criteria
\* prompts, filter, computeStats, rankHosts, report, export prompt, export;
\* no stage is entered twice or before the one ahead of it was, every stage
\* after the load is entered only once the load has resolved, and after a
\* failed load no later stage is entered at all.
C12_StagesInOrder ==
  /\ \A i, j \in 1..Len(events) :
       i < j => StageOf(events[i].op) <= StageOf(events[j].op)
  /\ \A op \in UNION {Stages[k] : k \in 1..Len(Stages)} : Cardinality(CallsOf(op)) <= 1
  /\ \A k \in 2..Len(Stages) : StageReached(k) => StageReached(k - 1)
  /\ StageReached(2) => (pc \in {"prompts", "askExport", "done"} /\ ~LoadFailed)
  /\ LoadFailed => \A k \in 2..Len(Stages) : ~StageReached(k)
  /\ (pc = "done" /\ ~LoadFailed) => \A k \in 1..Len(Stages) - 1 : StageReached(k)
  /\ pc = "askExport" <=> (StageReached(Len(Stages) - 2) /\ ~StageReached(Len(Stages) - 1))

\* a session went through every stage and wrote the export file
C12_Witness ==
  /\ pc = "done"
  /\ \A k \in 1..Len(Stages) : StageReached(k)
  /\ CallsOf("writeFile") # {}
  /\ outFile = stringify(filteredRecords)

\* the write of the export file failed
ExportFailed == Printed("Error writing to file")

\* C13: a failed write of the export file is reported by exportData itself:
\* exportData settles with the handler for every path, the step of the
\* failed export leaves filteredRecords, stats and topHosts as they were,
\* and the session ends by its normal close, without the error report of run.
C13_ExportFailureIsContained ==
  /\ [](pc = "askExport" =>
          \A a \in ExportAnswers \ {Blank} :
            exportData(filteredRecords, a, outFile).settles = "handler")
  /\ [](ExportFailed =>
          /\ TimesPrinted("Error writing to file") = 1
          /\ ~Printed("An error occurred")
          /\ ~Printed("Results exported")
          /\ pc = "done" /\ rl = "closed" /\ exitCode = 0
          /\ events[Len(events)].op = "close")
  /\ [][ExportFailed' =>
          /\ filteredRecords' = filteredRecords
          /\ stats' = stats
          /\ topHosts' = topHosts
          /\ outFile' = outFile]_vars

\* an export of a non-empty filtered set to an unwritable path has failed
C13_Witness ==
  /\ ExportFailed
  /\ pc = "done"
  /\ filteredRecords # <<>>
  /\ stats.set
  /\ topHosts # <<>>
  /\ \E i \in CallsOf("exportData") : events[i].arg = UnwritablePath

\* C14: exportData on an empty filteredRecords writes nothing (the file at
\* the path, if any, stays as it is), logs that there is nothing to export
\* and settles with the handler; the export file is written, and changes,
\* only in an export of a non-empty filteredRecords.
C14_EmptyExportWritesNothing ==
  /\ []((pc = "askExport" /\ filteredRecords = <<>>) =>
          \A a \in ExportAnswers \ {Blank} :
            exportData(filteredRecords, a, outFile) =
              [outFile |-> outFile, output |-> <<"No data to export">>,
               events |-> <<>>, settles |-> "handler"])
  /\ [](Printed("No data to export") =>
          /\ filteredRecords = <<>>
          /\ CallsOf("exportData") # {}
          /\ CallsOf("writeFile") = {}
          /\ ~Printed("Results exported")
          /\ ~Printed("An error occurred"))
  /\ [](CallsOf("writeFile") # {} => filteredRecords # <<>>)
  /\ [][outFile' # outFile => filteredRecords # <<>>]_vars
  /\ [][Printed("No data to export")' => outFile' = outFile]_vars

\* an export was asked for when the filter had left no listing, with a file
\* of an earlier run at the path
C14_Witness ==
  /\ pc = "done"
  /\ Printed("No data to export")
  /\ listings # <<>>
  /\ filteredRecords = <<>>
  /\ outFile = OldFile
  /\ \E i \in CallsOf("exportData") : events[i].arg = ExportPath

\* the lines printed with console.error
ErrorLines == {"Error reading file", "Error writing to file", "An error occurred"}

\* the number of console.error lines printed so far
ErrorsPrinted == Cardinality({i \in 1..Len(output) : output[i] \in ErrorLines})

\* C15: nothing is retried and a failure is reported by exactly one error
\* message: after a failed load one error line has been printed and the
\* file was read once; after a failed export write one error line has been
\* printed and the write was attempted once.
C15_EachFailureReportedOnce ==
  /\ Cardinality(CallsOf("loadListings")) <= 1
  /\ Cardinality(CallsOf("readFile")) <= 1
  /\ Cardinality(CallsOf("exportData")) <= 1
  /\ Cardinality(CallsOf("writeFile")) <= 1
  /\ LoadFailed => (ErrorsPrinted = 1 /\ Cardinality(CallsOf("readFile")) = 1)
  /\ ExportFailed => (ErrorsPrinted = 1 /\ Cardinality(CallsOf("writeFile")) = 1)
  /\ (~LoadFailed /\ ~ExportFailed) => ErrorsPrinted = 0

----------------------------------------------------------------------------
(* Properties of export and reload *)

\* C16: loading the file exportData wrote for a non-empty filteredRecords
\* gives as many listings as were exported, and listing i has the price,
\* accommodates, review_scores_rating and host_id of exported listing i.
C16_ExportReloadsTheSame ==
  pc = "reloaded" =>
    /\ Len(listings) = Len(filteredRecords)
    /\ \A i \in 1..Len(listings) :
         /\ i <= Len(filteredRecords)
         /\ listings[i].price = filteredRecords[i].price
         /\ listings[i].accommodates = filteredRecords[i].accommodates
         /\ listings[i].review_scores_rating = filteredRecords[i].review_scores_rating
         /\ listings[i].host_id = filteredRecords[i].host_id

----------------------------------------------------------------------------
(* Properties of the file path and export path prompts *)

\* C17: loadListings is called at most once, with the answer just given to
\* the file path prompt, which is not blank, all answers before it being
\* blank; every blank answer is followed by the next file path prompt and
\* by the "Invalid input" line, and none of them is passed to loadListings.
C17_PathAskedUntilNotBlank ==
  /\ Cardinality(CallsOf("loadListings")) <= 1
  /\ CallsOf("loadListings") # {} <=> pc # "askPath"
  /\ \A i \in CallsOf("loadListings") :
       /\ Trim(events[i].arg) # <<>>
       /\ events[i].arg = path
       /\ i > 1
       /\ events[i - 1] = Event("ask path", events[i].arg)
       /\ \A j \in 1..(i - 2) :
            events[j].op = "ask path" /\ Trim(events[j].arg) = <<>>
  /\ \A i \in CallsOf("ask path") :
       Trim(events[i].arg) = <<>> =>
         IF i = Len(events) THEN pc = "askPath" ELSE events[i + 1].op = "ask path"
  /\ TimesPrinted("Invalid input") =
       Cardinality({i \in CallsOf("ask path") : Trim(events[i].arg) = <<>>})

\* the file was loaded after a whitespace-only answer had been turned down
C17_Witness ==
  /\ events # <<>>
  /\ events[1] = Event("ask path", Space)
  /\ \E i \in CallsOf("loadListings") : events[i].arg = InputPath
  /\ pc = "prompts"

\* C18: once the export prompt is answered, exportData has been called
\* exactly when the answer is not blank: never, and without a file write,
\* for an empty or whitespace-only answer, and once, with the answer as
\* its path, for any other answer.
C18_ExportRunsIffNotBlank ==
  \A i \in CallsOf("ask export") :
    IF Trim(events[i].arg) = <<>>
    THEN CallsOf("exportData") = {} /\ CallsOf("writeFile") = {}
    ELSE /\ Cardinality(CallsOf("exportData")) = 1
         /\ \A j \in CallsOf("exportData") : j = i + 1 /\ events[j].arg = events[i].arg

----------------------------------------------------------------------------
(* Properties of a handler called in any order *)

\* C19: once computeStats and rankHosts have both been called, what getData
\* returns is consistent: stats.total_count is the length of filteredRecords,
\* stats.count is the number of its listings with a price above 0, and
\* topHosts is the ranking of its hosts.
C19_GetDataIsConsistent ==
  (CallsOf("computeStats") # {} /\ CallsOf("rankHosts") # {}) =>
    LET data == getData
    IN  /\ data.stats.total_count = Len(data.filteredRecords)
        /\ data.stats.count =
             Cardinality({i \in 1..Len(data.filteredRecords) :
                            data.filteredRecords[i].price.n > 0})
        /\ data.topHosts = rankHosts(data.filteredRecords)

\* the listing satisfies the criteria of every filter call made so far
SatisfiesAllFilters(l) ==
  \A i \in CallsOf("filter") : SatisfiesBounds(l, events[i].arg)

\* the positions of the constructor's listings that satisfy every filter call
KeptByAllFilters == {i \in 1..Len(listings) : SatisfiesAllFilters(listings[i])}

\* C20: after any sequence of filter calls filteredRecords is exactly the
\* listings the handler was built on that satisfy the criteria of all the
\* calls, in their original order (which does not depend on the order of
\* the calls); a filter call never enlarges filteredRecords, a filter with
\* criteria already applied or with no bound set leaves it unchanged.
C20_FiltersAccumulate ==
  /\ [](IsSubsequenceAt(filteredRecords, listings, KeptByAllFilters))
  /\ [][Len(filteredRecords') <= Len(filteredRecords)]_vars
  /\ [][(/\ Len(events') = Len(events) + 1
         /\ events'[Len(events')].op = "filter"
         /\ \/ events'[Len(events')].arg = NoCriteria
            \/ \E i \in CallsOf("filter") : events[i].arg = events'[Len(events')].arg)
          => filteredRecords' = filteredRecords]_vars

\* two filters with different criteria have each removed listings, and a
\* later filter with no bound set has been applied
C20_Witness ==
  /\ Len(events) = 3
  /\ \A i \in 1..3 : events[i].op = "filter"
  /\ events[1].arg = [NoCriteria EXCEPT !.maxPrice = Int2Num(100)]
  /\ events[2].arg = [NoCriteria EXCEPT !.minRooms = Int2Num(2), !.maxRooms = Int2Num(2)]
  /\ events[3].arg = NoCriteria
  /\ Len(listings) = 6
  /\ Len(filteredRecords) = 2

\* the operation a step of the handler calls: the first entry it adds to
\* the call log
StepIs(op) == Len(events') > Len(events) /\ events'[Len(events) + 1].op = op

\* C21: of filteredRecords, stats and topHosts a step of computeStats
\* changes at most stats, a step of rankHosts at most topHosts, a step of
\* exportData or getData none, so that only filter changes filteredRecords;
\* and no step changes the listings array the handler was built on.
C21_OperationsChangeOnlyTheirOwn ==
  /\ [][listings' = listings]_vars
  /\ [][filteredRecords' # filteredRecords => StepIs("filter")]_vars
  /\ [][StepIs("filter") => (stats' = stats /\ topHosts' = topHosts)]_vars
  /\ [][StepIs("computeStats") =>
          (filteredRecords' = filteredRecords /\ topHosts' = topHosts)]_vars
  /\ [][StepIs("rankHosts") =>
          (filteredRecords' = filteredRecords /\ stats' = stats)]_vars
  /\ [][(StepIs("exportData") \/ StepIs("getData")) =>
          /\ filteredRecords' = filteredRecords
          /\ stats' = stats
          /\ topHosts' = topHosts]_vars
  /\ [][StepIs("getData") => getData' = getData]_vars

\* a filter removed listings, then statistics were computed over listings
\* some of which have no price, and the rest was exported
C21_Witness ==
  /\ Len(events) = 4
  /\ events[1].op = "filter"
  /\ events[2].op = "computeStats"
  /\ events[3].op = "exportData"
  /\ events[4].op = "writeFile"
  /\ Len(filteredRecords) < Len(listings)
  /\ stats.set
  /\ stats.count < stats.total_count
  /\ outFile = stringify(filteredRecords)

----------------------------------------------------------------------------
(* Properties of the end of the session *)

\* what is left of a session: the steps it can still take at most, blank
\* file paths included
StepsLeft ==
  CASE pc = "askPath"   -> 8 + (MaxBlankPaths - BlankPathsSoFar)
    [] pc = "load"      -> 7
    [] pc = "prompts"   -> 6 - Len(answers)
    [] pc = "askExport" -> 1
    [] pc = "done"      -> 0

\* a session that has not ended waits for an answer it can be given, or
\* for loadListings to settle one way or the other
NotStuck ==
  /\ pc \in {"askPath", "load", "prompts", "askExport", "done"}
  /\ pc = "askPath" => ENABLED (\E a \in PathAnswers : AnswerPath(a))
  /\ pc = "load" => (Loadable(path) \/ ENABLED LoadRejects)
  /\ pc = "prompts" =>
       /\ Len(answers) <= 4
       /\ Len(answers) < 4 =>
            ENABLED (\E a \in PromptAnswers[Len(answers) + 1] : AnswerCriterion(a))
  /\ pc = "askExport" => ENABLED SkipExport

\* C22: a session whose prompts are all answered comes to its end (every
\* step brings the end nearer and only an ended session has no step left),
\* and it ends with readline closed by exactly one rl.close(), whichever
\* way it went (failed load, no export, export written, export failed);
\* the close is the last call of the session and no step follows it.
C22_ClosedExactlyOnce ==
  /\ [](Cardinality(CallsOf("close")) <= 1)
  /\ [](rl = "closed" <=> CallsOf("close") # {})
  /\ [](pc = "done" <=> rl = "closed")
  /\ [](CallsOf("close") # {} => events[Len(events)].op = "close")
  /\ [][rl = "closed" => vars' = vars]_vars
  /\ [](NotStuck)
  /\ [](StepsLeft >= 0 /\ (StepsLeft = 0 <=> pc = "done"))
  /\ [][StepsLeft' < StepsLeft]_vars

\* a session in which a blank file path was turned down and the export
\* write failed has ended with readline closed
C22_Witness ==
  /\ pc = "done"
  /\ rl = "closed"
  /\ Printed("Invalid input")
  /\ ExportFailed
  /\ events[Len(events)] = Event("close", <<>>)
  /\ Cardinality(CallsOf("close")) = 1

====
